---- MODULE Spec2Model ----
(***************************************************************************)
(* Model of build.py: the auxiliary loaders, parse_markdown (one step per  *)
(* iteration of its line loop), generate_html, and build with its input    *)
(* files and its output directory.                                         *)
(*                                                                         *)
(* A Python string is a sequence of tokens; a token is a TLA+ string that  *)
(* stands for one character ("#", "*", "[", a digit) or for a run of       *)
(* characters none of which the program looks at ("Foo", "http://x").      *)
(* The empty string is <<>>.  Characters outside ASCII are written as the  *)
(* named tokens below.  An optional value (None, or an absent dict key) is *)
(* a sequence of length 0, a present one a sequence of length 1.           *)
(***************************************************************************)
EXTENDS Integers, Sequences, FiniteSets, TLC

VARIABLES
    cache,            \* the cache files beside build.py and the bridged feed's answer
    producthunt,      \* build's local: result of get_producthunt_top30()
    github_trending,  \* build's local: result of get_github_trending()
    ai_models,        \* build's local: result of get_ai_models()
    ai_tools,         \* build's local: result of get_ai_tools()
    ai_trends,        \* build's local: result of get_ai_trends()
    ai_news,          \* build's local: result of get_ai_news()
    lines,            \* the elements of md_content.split('\n') the loop has read
    current_section,  \* parse_markdown's local
    current_item,     \* parse_markdown's local (optional Article)
    sections,         \* parse_markdown's local, the Report it returns
    all_dates,        \* generate_html's argument
    html,             \* generate_html's result (optional page)
    consulted,        \* the sources get_producthunt_top30 went to, in order
    md_files,         \* build: the stems of the *.md files of the input directory
    dist_dir,         \* build: the output directory
    todo,             \* build: the input files the page loop has yet to visit
    build_date,       \* build: the page loop's local date (optional stem)
    pc                \* where the run stands

vars == <<cache, producthunt, github_trending, ai_models, ai_tools, ai_trends,
          ai_news, lines, current_section, current_item, sections, all_dates,
          html, consulted, md_files, dist_dir, todo, build_date, pc>>

loaderVars == <<cache, producthunt, github_trending, ai_models, ai_tools,
                ai_trends, ai_news, consulted>>
parserVars == <<lines, current_section, current_item, sections>>
buildVars == <<md_files, dist_dir, todo, build_date>>

-----------------------------------------------------------------------------
(* Bounds *)

\* longest input (in lines) the parser is fed, the documented scenario apart
MaxLen == 4
\* longest list of known dates handed to generate_html
MaxDates == 3
\* longest list a cache file or the bridged feed holds
MaxItems == 2
\* how far past its cap a list handed to generate_html goes
Over == 1

-----------------------------------------------------------------------------
(* Tokens for the non-ASCII characters and words of the source *)

MIDDOT == "<middot>"          \* the middle dot of a meta line
FWCOLON == "<fwcolon>"        \* the full-width colon of a summary bullet
BACKTICK == "<backtick>"      \* the backtick around a meta line
None == <<>>
Some(x) == <<x>>

Min(a, b) == IF a < b THEN a ELSE b

\* '## <summary>', '## <five-star>', '## <four-star>', '## <worth-viewing>'
H_SUMMARY == <<"#", "#", " ", "DaoDu">>
H_FIVE == <<"#", "#", " ", "WuXingTuiJian">>
H_FOUR == <<"#", "#", " ", "SiXingTuiJian">>
H_WORTH == <<"#", "#", " ", "ZhiDeYiKan">>
TITLE_MARK == <<"#", " ", "Daily", " ", "News">>
BULLET_MARK == <<"-", " ", "*", "*">>
OPENER_MARK == <<"*", "*", "[">>
HR_MARK == <<"-", "-", "-">>
GENERATED_MARK == <<"*", "Generated">>

Tiers == {"five_star", "four_star", "worth_viewing"}

-----------------------------------------------------------------------------
(* str methods and the regular expressions *)

IsSpace(c) == c \in {" ", "\t"}
IsDigit(c) == c \in {"0", "1", "2", "3", "4", "5", "6", "7", "8", "9"}

RECURSIVE lstrip(_, _)
lstrip(s, chars) ==
    IF s # <<>> /\ Head(s) \in chars THEN lstrip(Tail(s), chars) ELSE s

RECURSIVE rstrip(_, _)
rstrip(s, chars) ==
    IF s # <<>> /\ s[Len(s)] \in chars
    THEN rstrip(SubSeq(s, 1, Len(s) - 1), chars)
    ELSE s

\* the line taken as it stands, line.strip() left out
unstripped(s) == s

\* str.strip(): whitespace off both ends
strip(s) == rstrip(lstrip(s, {" ", "\t"}), {" ", "\t"})

\* str.strip(<backtick>)
strip_backticks(s) == rstrip(lstrip(s, {BACKTICK}), {BACKTICK})

startswith(s, p) == Len(s) >= Len(p) /\ SubSeq(s, 1, Len(p)) = p

\* p occurs in s at index i
At(s, i, p) == i >= 1 /\ i + Len(p) - 1 <= Len(s) /\ SubSeq(s, i, i + Len(p) - 1) = p

contains(s, c) == \E i \in 1..Len(s) : s[i] = c

MinOf(S) == CHOOSE x \in S : \A y \in S : x <= y

\* \d{4}-\d{2}-\d{2} matches s at index i
DateAt(s, i) ==
    /\ i + 9 <= Len(s)
    /\ \A k \in {0, 1, 2, 3, 5, 6, 8, 9} : IsDigit(s[i + k])
    /\ s[i + 4] = "-"
    /\ s[i + 7] = "-"

\* re.search(r'(\d{4}-\d{2}-\d{2})', line): the leftmost match, if any
search_date(line) ==
    LET hits == {i \in 1..Len(line) : DateAt(line, i)}
    IN  IF hits = {} THEN None
        ELSE Some(SubSeq(line, MinOf(hits), MinOf(hits) + 9))

\* re.match(r'\*\*\[(.+?)\]\((.+?)\)\*\*', line): both groups are lazy and
\* non-empty; the title ends at the first "](" after which a url can end
UrlEnds(line, u) ==
    {e \in u..Len(line) : At(line, e + 1, <<")", "*", "*">>)}
TitleEnds(line) ==
    {t \in 4..Len(line) :
        At(line, t + 1, <<"]", "(">>) /\ UrlEnds(line, t + 3) # {}}
match_link(line) ==
    IF startswith(line, OPENER_MARK) /\ TitleEnds(line) # {}
    THEN LET t == MinOf(TitleEnds(line))
             e == MinOf(UrlEnds(line, t + 3))
         IN  Some([title |-> SubSeq(line, 4, t), url |-> SubSeq(line, t + 3, e)])
    ELSE None

\* re.match(r'- \*\*(.+?)\*\*<fwcolon>(.+)', line): lazy topic, greedy content
TopicEnds(line) ==
    {t \in 5..Len(line) :
        At(line, t + 1, <<"*", "*", FWCOLON>>) /\ t + 4 <= Len(line)}
match_bullet(line) ==
    IF startswith(line, BULLET_MARK) /\ TopicEnds(line) # {}
    THEN LET t == MinOf(TopicEnds(line))
         IN  Some([topic |-> SubSeq(line, 5, t),
                   content |-> SubSeq(line, t + 4, Len(line))])
    ELSE None

-----------------------------------------------------------------------------
(* parse_markdown *)

\* The dict parse_markdown starts from.  The key 'date' is absent until a
\* title line carries a date.
EmptySections ==
    [title |-> <<>>, date |-> None, summary |-> <<>>,
     five_star |-> <<>>, four_star |-> <<>>, worth_viewing |-> <<>>]

\* The locals of parse_markdown as one value; exc names the exception an
\* iteration raised ("" when none).
ParserState(sec, item, secs) ==
    [current_section |-> sec, current_item |-> item, sections |-> secs, exc |-> ""]

\* The dict a bold-link opener creates.  Its field opener is not in the source:
\* it records the index of the line that started the Article, so that two
\* Articles with equal fields remain two.
NewItem(n) == [title |-> <<>>, url |-> <<>>, summary |-> <<>>, meta |-> <<>>, opener |-> n]

\* sections[current_section].append(current_item)
AppendItem(secs, sec, item) == [secs EXCEPT ![sec] = Append(@, item)]

\* '## <five-star>': the section is assigned first, then the pending item is
\* appended to sections[current_section]
EnterFiveStar(st) ==
    LET sec == "five_star"
    IN  [st EXCEPT
            !.current_section = sec,
            !.sections = IF st.current_item # None
                         THEN AppendItem(@, sec, st.current_item[1])
                         ELSE @,
            !.current_item = None]

\* '## <four-star>' and '## <worth-viewing>': as above, with the test
\* current_section != 'summary' made after the assignment
EnterTier(st, tier) ==
    LET sec == tier
    IN  [st EXCEPT
            !.current_section = sec,
            !.sections = IF st.current_item # None /\ sec # "summary"
                         THEN AppendItem(@, sec, st.current_item[1])
                         ELSE @,
            !.current_item = None]

\* SummaryBullet with the item put at the front of the list
SummaryBulletFront(st, line) ==
    LET m == match_bullet(line)
    IN  IF m # None
        THEN [st EXCEPT !.sections.summary = <<m[1]>> \o @]
        ELSE st

\* a line of the summary section that starts with '- **'
SummaryBullet(st, line) ==
    LET m == match_bullet(line)
    IN  IF m # None
        THEN [st EXCEPT !.sections.summary = Append(@, m[1])]
        ELSE st

\* a line that starts with '**[': the pending item is appended, a new one begins
StartItem(st, line, n) ==
    LET m == match_link(line)
        fresh == NewItem(n)
    IN  [st EXCEPT
            !.sections = IF st.current_item # None
                         THEN AppendItem(@, st.current_section, st.current_item[1])
                         ELSE @,
            !.current_item = IF m # None
                             THEN Some([fresh EXCEPT !.title = m[1].title,
                                                     !.url = m[1].url])
                             ELSE Some(fresh)]

\* SetMeta that keeps a meta already set
SetMetaOnce(item, line) ==
    IF item.meta # <<>> THEN item ELSE [item EXCEPT !.meta = strip_backticks(line)]

\* current_item['meta'] = line.strip(<backtick>)
SetMeta(item, line) == [item EXCEPT !.meta = strip_backticks(line)]

\* AddSummary with the separator put before the first line too
AddSummaryLeading(item, line) == [item EXCEPT !.summary = @ \o <<" ">> \o line]

\* the summary continuation: ' ' + line after the first, line alone at first
AddSummary(item, line) ==
    IF item.summary # <<>>
    THEN [item EXCEPT !.summary = @ \o <<" ">> \o line]
    ELSE [item EXCEPT !.summary = line]

\* a line read in a rating-tier section; subscripting current_item while it
\* is None raises TypeError
ArticleLine(st, line, n) ==
    IF startswith(line, OPENER_MARK)
    THEN StartItem(st, line, n)
    ELSE IF startswith(line, <<BACKTICK>>) /\ contains(line, MIDDOT)
    THEN IF st.current_item = None
         THEN [st EXCEPT !.exc = "TypeError"]
         ELSE [st EXCEPT !.current_item = Some(SetMeta(@[1], line))]
    ELSE IF line # <<>> /\ ~startswith(line, HR_MARK) /\ ~startswith(line, GENERATED_MARK)
    THEN IF st.current_item = None
         THEN [st EXCEPT !.exc = "TypeError"]
         ELSE [st EXCEPT !.current_item = Some(AddSummary(@[1], line))]
    ELSE st

\* one iteration of 'for line in lines', raw being the n-th line
HandleLine(st, raw, n) ==
    LET line == strip(raw)
    IN  IF line = <<>> THEN st
        ELSE IF startswith(line, TITLE_MARK)
        THEN LET m == search_date(line)
             IN  IF m # None THEN [st EXCEPT !.sections.date = m] ELSE st
        ELSE IF line = H_SUMMARY THEN [st EXCEPT !.current_section = "summary"]
        ELSE IF line = H_FIVE THEN EnterFiveStar(st)
        ELSE IF line = H_FOUR THEN EnterTier(st, "four_star")
        ELSE IF line = H_WORTH THEN EnterTier(st, "worth_viewing")
        ELSE IF st.current_section = "summary" /\ startswith(line, BULLET_MARK)
        THEN SummaryBullet(st, line)
        ELSE IF st.current_section \in Tiers
        THEN ArticleLine(st, line, n)
        ELSE st

\* after the loop: the last item is appended if a rating tier is active
FinishParse(st) ==
    IF st.current_item # None /\ st.current_section \in Tiers
    THEN [st EXCEPT !.sections = AppendItem(@, st.current_section, st.current_item[1])]
    ELSE st

\* the loop of parse_markdown over the lines ls, the first of them being the
\* n-th of the input; an exception ends it
RECURSIVE parse_lines(_, _, _)
parse_lines(st, ls, n) ==
    IF ls = <<>> \/ st.exc # "" THEN st
    ELSE parse_lines(HandleLine(st, Head(ls), n), Tail(ls), n + 1)

\* parse_markdown on the text whose lines are ls
parse_markdown(ls) ==
    FinishParse(parse_lines(ParserState("none", None, EmptySections), ls, 1))

-----------------------------------------------------------------------------
(* generate_html.  An HTML fragment is a sequence of elements, the empty   *)
(* string the empty sequence, and += is concatenation.                     *)

\* ord() of the characters a date string is made of
Code(c) ==
    CASE c = "-" -> 45
      [] c = "0" -> 48 [] c = "1" -> 49 [] c = "2" -> 50 [] c = "3" -> 51
      [] c = "4" -> 52 [] c = "5" -> 53 [] c = "6" -> 54 [] c = "7" -> 55
      [] c = "8" -> 56 [] c = "9" -> 57

\* a < b for str: lexicographic, a proper prefix being smaller
RECURSIVE StrLess(_, _)
StrLess(a, b) ==
    IF b = <<>> THEN FALSE
    ELSE IF a = <<>> THEN TRUE
    ELSE IF Code(Head(a)) # Code(Head(b)) THEN Code(Head(a)) < Code(Head(b))
    ELSE StrLess(Tail(a), Tail(b))

\* insert d into a list that is in descending order
RECURSIVE InsertDesc(_, _)
InsertDesc(d, s) ==
    IF s = <<>> THEN <<d>>
    ELSE IF StrLess(d, Head(s)) THEN <<Head(s)>> \o InsertDesc(d, Tail(s))
    ELSE <<d>> \o s

\* sorted(all_dates) without reverse=True
RECURSIVE InsertAsc(_, _)
InsertAsc(d, s) ==
    IF s = <<>> THEN <<d>>
    ELSE IF StrLess(Head(s), d) THEN <<Head(s)>> \o InsertAsc(d, Tail(s))
    ELSE <<d>> \o s
RECURSIVE sorted_ascending(_)
sorted_ascending(s) ==
    IF s = <<>> THEN <<>> ELSE InsertAsc(Head(s), sorted_ascending(Tail(s)))

\* sorted(all_dates, reverse=True)
RECURSIVE sorted_reverse(_)
sorted_reverse(s) ==
    IF s = <<>> THEN <<>> ELSE InsertDesc(Head(s), sorted_reverse(Tail(s)))

\* one <a class="date-link ..."> of the navigation; date is data.get('date')
DateLink(d, date) ==
    [href |-> d \o <<".html">>, active |-> (date = Some(d)), text |-> d]

generate_date_nav(dates, date) ==
    LET ds == sorted_reverse(dates)
    IN  [i \in 1..Len(ds) |-> DateLink(ds[i], date)]

\* the summary rows
generate_summary(summary) ==
    [i \in 1..Len(summary) |->
        [topic |-> summary[i].topic, content |-> summary[i].content]]

ArticleEntry(article) ==
    [url |-> article.url, title |-> article.title,
     meta |-> article.meta, summary |-> article.summary]

\* generate_articles without the test of the title
generate_articles_all(articles) ==
    [i \in 1..Len(articles) |-> ArticleEntry(articles[i])]

\* generate_articles: Articles with an empty title are skipped
RECURSIVE generate_articles(_)
generate_articles(articles) ==
    IF articles = <<>> THEN <<>>
    ELSE IF Head(articles).title = <<>>
    THEN generate_articles(Tail(articles))
    ELSE <<ArticleEntry(Head(articles))>> \o generate_articles(Tail(articles))

\* for i, product in enumerate(products, 1)
generate_product_list(products) ==
    [i \in 1..Len(products) |-> [rank |-> i, item |-> products[i]]]

\* the language-to-colour lookup, '#666666' for any other language
LangColor(language) ==
    CASE language = "Python" -> "#3572A5"
      [] language = "JavaScript" -> "#f1e05a"
      [] language = "TypeScript" -> "#2b7489"
      [] language = "Go" -> "#00ADD8"
      [] language = "Rust" -> "#dea584"
      [] language = "Java" -> "#b07219"
      [] language = "C++" -> "#f34b7d"
      [] language = "C" -> "#555555"
      [] OTHER -> "#666666"

generate_github_list(repos) ==
    [i \in 1..Len(repos) |->
        [lang_color |-> LangColor(repos[i].language), item |-> repos[i]]]

\* the caps of the slices models[:8], tools[:16] and news[:15]
MODELS_CAP == 8
TOOLS_CAP == 16
NEWS_CAP == 15

\* one entry per element of items, the slice left out
UncappedList(items, cap) == [i \in 1..Len(items) |-> [item |-> items[i]]]

\* one entry per element of items[:cap]
CappedList(items, cap) ==
    [i \in 1..Min(Len(items), cap) |-> [item |-> items[i]]]

generate_ai_models_list(models) == CappedList(models, MODELS_CAP)
generate_ai_tools_list(tools) == CappedList(tools, TOOLS_CAP)
generate_ai_trends_list(trends) == [i \in 1..Len(trends) |-> [item |-> trends[i]]]
generate_ai_news_list(news) == CappedList(news, NEWS_CAP)

\* Section without the test of x_html: the shell is emitted around nothing
SectionAlways(name, inner) == <<[block |-> name, entries |-> inner]>>

\* x_section = '' ; if x_html: x_section = <section>...{x_html}...</section>
Section(name, inner) ==
    IF inner # <<>> THEN <<[block |-> name, entries |-> inner]>> ELSE <<>>

\* the three rating-tier sections, in the order the template places them
TierSections(data) ==
    Section("five_star", generate_articles(data.five_star))
        \o Section("four_star", generate_articles(data.four_star))
        \o Section("worth_viewing", generate_articles(data.worth_viewing))

\* the six auxiliary sections, in the order the template places them
AuxSections(ph, gh, models, tools, trends, news) ==
    Section("producthunt", generate_product_list(ph))
        \o Section("github_trending", generate_github_list(gh))
        \o Section("ai_models", generate_ai_models_list(models))
        \o Section("ai_tools", generate_ai_tools_list(tools))
        \o Section("ai_trends", generate_ai_trends_list(trends))
        \o Section("ai_news", generate_ai_news_list(news))

\* the page: the parts of the template that depend on the arguments
generate_html(data, dates, ph, gh, models, tools, trends, news) ==
    LET summary_html == generate_summary(data.summary)
    IN  [title_date |-> IF data.date # None THEN data.date[1] ELSE <<>>,
         date_nav |-> generate_date_nav(dates, data.date),
         summary |-> [rows |-> summary_html, placeholder |-> (summary_html = <<>>)],
         body |-> TierSections(data)
                    \o AuxSections(ph, gh, models, tools, trends, news)]

-----------------------------------------------------------------------------
(* The auxiliary loaders.  A cache file is [exists, loads, json]: whether  *)
(* the file is there, whether json.load accepts its content (an empty or   *)
(* damaged file raises), and the value loaded.  The product, repository    *)
(* and model caches hold JSON arrays; the news cache holds                 *)
(* [is_dict, quantum], quantum being the optional value of that key.       *)
(* The bridged feed answers [raises, status_code, items].                  *)

Missing == [exists |-> FALSE, loads |-> FALSE, json |-> <<>>]
Unreadable == [exists |-> TRUE, loads |-> FALSE, json |-> <<>>]
Holding(v) == [exists |-> TRUE, loads |-> TRUE, json |-> v]

\* data.get('items', [])[:30]
FEED_CAP == 30

\* title.split(' - '): the parts of a token sequence around the token " - "
RECURSIVE split_dash(_)
split_dash(title) ==
    IF ~contains(title, " - ") THEN <<title>>
    ELSE LET i == MinOf({k \in 1..Len(title) : title[k] = " - "})
         IN  <<SubSeq(title, 1, i - 1)>> \o split_dash(SubSeq(title, i + 1, Len(title)))

\* one product of the bridged feed (the cut of the description to 200
\* characters is below the grain of tokens and is left out)
FeedProduct(item) ==
    LET parts == split_dash(item.title)
        name == parts[1]
        desc == IF Len(parts) > 1 THEN parts[2] ELSE item.description
    IN  [name |-> strip(name), url |-> item.link, description |-> strip(desc)]

\* How a call or a block ends: it returns a value, or an exception is on
\* its way out of it.
Returned(v) == [raised |-> FALSE, value |-> v]
Raised == [raised |-> TRUE, value |-> <<>>]

\* with open(cache_file) as f: json.load(f)
json_load(file) == IF file.loads THEN Returned(file.json) ELSE Raised

\* requests.get(url, headers=headers, timeout=10)
requests_get(feed) == IF feed.raises THEN Raised ELSE Returned(feed)

\* a try statement without its except clause
TryUncaught(body, handler) == body

\* try: body / except Exception: the handler's value is what the function
\* goes on to return
Try(body, handler) == IF body.raised THEN Returned(handler) ELSE body

get_producthunt_mock == <<>>

get_producthunt_fallback(feed) ==
    LET response == requests_get(feed)
        body == IF response.raised THEN Raised
                ELSE IF response.value.status_code = 200
                THEN Returned([i \in 1..Min(Len(response.value.items), FEED_CAP) |->
                                 FeedProduct(response.value.items[i])])
                ELSE Returned(get_producthunt_mock)
    IN  Try(body, get_producthunt_mock)

\* the product loader with a failed cache read sent on to the bridged feed
get_producthunt_top30_onward(file, feed) ==
    IF file.exists /\ file.loads THEN Returned(file.json)
    ELSE get_producthunt_fallback(feed)

get_producthunt_top30(file, feed) ==
    Try(IF file.exists THEN json_load(file) ELSE get_producthunt_fallback(feed),
        <<>>)

\* the sources get_producthunt_fallback goes to: the bridged feed, and the
\* fixed result when the feed raises or answers anything but 200
fallback_sources(feed) ==
    <<"feed">> \o (IF feed.raises \/ feed.status_code # 200 THEN <<"mock">> ELSE <<>>)

\* the sources get_producthunt_top30 goes to: the cache file, and what
\* get_producthunt_fallback goes to when there is no cache file
top30_sources(file, feed) ==
    <<"cache">> \o (IF file.exists THEN <<>> ELSE fallback_sources(feed))

get_github_trending(file) ==
    Try(IF file.exists THEN json_load(file) ELSE Returned(<<>>), <<>>)

\* the eight built-in models get_ai_models falls back to
STATIC_MODELS ==
    LET names == <<"MiniMax M2.5", "Claude 3.5 Sonnet", "Gemini 2.0 Pro",
                   "Llama 3.1 405B", "Mistral Large 2", "Qwen 2.5",
                   "DeepSeek V2.5", "Grok-2">>
    IN  [i \in 1..Len(names) |-> [name |-> names[i], rank |-> i]]

\* without a cache file, and after the except clause, the function goes on
\* to its built-in list
get_ai_models(file) ==
    Try(IF file.exists THEN json_load(file) ELSE Returned(STATIC_MODELS),
        STATIC_MODELS)

\* the sixteen built-in tools
get_ai_tools ==
    LET names == <<"Cursor", "Windsurf", "v0", "bolt.new", "Lovable",
                   "Replit Agent", "Perplexity", "Notion AI", "Raycast AI",
                   "Gamma", "Runway", "Pika", "Midjourney", "DALL-E 3",
                   "ElevenLabs", "HeyGen">>
    IN  [i \in 1..Len(names) |-> [name |-> names[i]]]

\* the eight built-in trends
get_ai_trends ==
    LET categories == <<"trend", "paradigm", "model", "open source",
                        "hardware", "product", "AIGC", "tooling">>
    IN  [i \in 1..Len(categories) |-> [category |-> categories[i]]]

\* data.get('quantum', []) raises AttributeError when data is no dict
get_ai_news(file) ==
    LET data == json_load(file)
        body == IF ~file.exists THEN Returned(<<>>)
                ELSE IF data.raised \/ ~data.value.is_dict THEN Raised
                ELSE IF data.value.quantum # None
                THEN Returned(data.value.quantum[1])
                ELSE Returned(<<>>)
    IN  Try(body, <<>>)

-----------------------------------------------------------------------------
(* Inputs *)

SeqsUpTo(S, n) == UNION {[1..k -> S] : k \in 0..n}

\* the date string 2024-01-0n
Date(n) == <<"2", "0", "2", "4", "-", "0", "1", "-", "0", ToString(n)>>
DEC31 == <<"2", "0", "2", "3", "-", "1", "2", "-", "3", "1">>
\* the known dates, in calendar order
DATE_LIST == <<DEC31, Date(1), Date(2), Date(3)>>
DATES == {DATE_LIST[i] : i \in 1..Len(DATE_LIST)}

\* lines of a report
BLANK == <<>>
OPENER_FOO == <<"*", "*", "[", "Foo", "]", "(", "http://x", ")", "*", "*">>
OPENER_BAD == <<"*", "*", "[", "Bar", "]">>
META_LINE == <<BACKTICK, "AI", " ", MIDDOT, " ", "5min", BACKTICK>>
TEXT_GREAT == <<"Great", " ", "read.">>
TEXT_MORE == <<"More", " ", "text.">>
HR_LINE == <<"-", "-", "-">>
GENERATED_LINE == <<"*", "Generated", " ", "by", "*">>
TITLE_LINE == TITLE_MARK \o <<" ", "-", " ">> \o Date(2)
TITLE_BARE == TITLE_MARK

\* the scenario of the specification's section 8
SCENARIO ==
    <<H_FIVE, OPENER_FOO, META_LINE, TEXT_GREAT, TEXT_MORE, H_FOUR, BLANK>>

\* the lines the article claims are checked on
LineSet ==
    {BLANK, H_SUMMARY, H_FIVE, H_FOUR, H_WORTH, OPENER_FOO, OPENER_BAD,
     META_LINE, TEXT_GREAT, TEXT_MORE, HR_LINE, GENERATED_LINE, TITLE_LINE}

\* summary bullets, and a line that starts like one without the colon
BULLET_AI == BULLET_MARK \o <<"AI", "*", "*", FWCOLON, "news">>
BULLET_WEB == BULLET_MARK \o <<"Web", "*", "*", FWCOLON, "more", " ", "news">>
BULLET_BAD == BULLET_MARK \o <<"AI", "*", "*", " ", "news">>

\* the lines the summary claims are checked on
SummaryLineSet ==
    {H_SUMMARY, H_FIVE, OPENER_FOO, TEXT_GREAT, BULLET_AI, BULLET_WEB, BULLET_BAD}

\* a second meta line
META_WEB == <<BACKTICK, "Web", " ", MIDDOT, " ", "3min", BACKTICK>>

\* the lines the meta claim is checked on
MetaLineSet ==
    {H_SUMMARY, H_FIVE, H_FOUR, OPENER_FOO, META_LINE, META_WEB, TEXT_GREAT}

\* a line of blanks and tabs
SPACES == <<" ", "\t", " ">>

\* the lines the blank-line claim is checked on
BlankLineSet ==
    {BLANK, SPACES, H_SUMMARY, H_FIVE, OPENER_FOO, META_LINE, TEXT_GREAT, BULLET_AI}

\* the lines the navigation claims are checked on
NavLineSet == {TITLE_LINE, TITLE_BARE}

\* the lines the loader claims are checked on
AuxLineSet == {H_FIVE}

\* the records a cache file or the feed may hold
Product(i) ==
    [name |-> <<"product", ToString(i)>>, url |-> <<"http://p", ToString(i)>>,
     description |-> <<"about", ToString(i)>>]
Repo(i) ==
    [name |-> <<"repo", ToString(i)>>,
     language |-> IF i % 2 = 1 THEN "Python" ELSE "Zig"]
Model(i) == [name |-> <<"model", ToString(i)>>, rank |-> i]
News(i) == [title |-> <<"news", ToString(i)>>]
FeedItem(i) ==
    [title |-> IF i % 2 = 1
               THEN <<"feed", ToString(i), " ", " - ", " ", "tagline">>
               ELSE <<"feed", ToString(i)>>,
     link |-> <<"http://f", ToString(i)>>,
     description |-> <<" ", "described">>]

Products(k) == [i \in 1..k |-> Product(i)]
Repos(k) == [i \in 1..k |-> Repo(i)]
Models(k) == [i \in 1..k |-> Model(i)]
NewsList(k) == [i \in 1..k |-> News(i)]
FeedItems(k) == [i \in 1..k |-> FeedItem(i)]

ListFiles(F(_)) == {Missing, Unreadable} \cup {Holding(F(k)) : k \in 0..MaxItems}
NewsJson ==
    {[is_dict |-> FALSE, quantum |-> None], [is_dict |-> TRUE, quantum |-> None]}
        \cup {[is_dict |-> TRUE, quantum |-> Some(NewsList(k))] : k \in 0..MaxItems}
NewsFiles == {Missing, Unreadable} \cup {Holding(j) : j \in NewsJson}
Feeds ==
    {[raises |-> TRUE, status_code |-> 0, items |-> <<>>],
     [raises |-> FALSE, status_code |-> 500, items |-> <<>>]}
        \cup {[raises |-> FALSE, status_code |-> 200, items |-> FeedItems(k)] :
                k \in 0..MaxItems}

Caches ==
    [producthunt_cache : ListFiles(Products),
     github_trending_cache : ListFiles(Repos),
     openrouter_cache : ListFiles(Models),
     ai_news_cache : NewsFiles,
     feed : Feeds]

DefaultCache ==
    [producthunt_cache |-> Holding(Products(1)),
     github_trending_cache |-> Missing,
     openrouter_cache |-> Missing,
     ai_news_cache |-> Holding([is_dict |-> TRUE, quantum |-> Some(NewsList(1))]),
     feed |-> [raises |-> TRUE, status_code |-> 0, items |-> <<>>]]

-----------------------------------------------------------------------------
(* The run: the loaders in build's order, then parse_markdown line by line, *)
(* then generate_html on what it returned.                                  *)

\* the output directory: whether it is there, and the page under each name
NoDir == [exists |-> FALSE, files |-> <<>>]
EmptyDir == [exists |-> TRUE, files |-> <<>>]

InitAll(c, dates, stems, dir, start) ==
    /\ cache = c
    /\ producthunt = <<>>
    /\ github_trending = <<>>
    /\ ai_models = <<>>
    /\ ai_tools = <<>>
    /\ ai_trends = <<>>
    /\ ai_news = <<>>
    /\ lines = <<>>
    /\ current_section = "none"
    /\ current_item = None
    /\ sections = EmptySections
    /\ all_dates = dates
    /\ html = None
    /\ consulted = <<>>
    /\ md_files = stems
    /\ dist_dir = dir
    /\ todo = stems
    /\ build_date = None
    /\ pc = start

\* the loaders, parse_markdown and generate_html run outside build
InitWith(c, dates) == InitAll(c, dates, {}, NoDir, "get_producthunt_top30")

Init == InitWith(DefaultCache, <<Date(1), Date(2)>>)
InitNav == \E dates \in SeqsUpTo(DATES, MaxDates) : InitWith(DefaultCache, dates)
InitAux == \E c \in Caches : InitWith(c, <<Date(1), Date(2)>>)

GetProductHunt ==
    /\ pc = "get_producthunt_top30"
    /\ LET r == get_producthunt_top30(cache.producthunt_cache, cache.feed)
       IN  /\ producthunt' = r.value
           /\ pc' = IF r.raised THEN "loader_raised" ELSE "get_github_trending"
    /\ consulted' = top30_sources(cache.producthunt_cache, cache.feed)
    /\ UNCHANGED <<cache, github_trending, ai_models, ai_tools, ai_trends, ai_news,
                   parserVars, buildVars, all_dates, html>>

GetGithubTrending ==
    /\ pc = "get_github_trending"
    /\ LET r == get_github_trending(cache.github_trending_cache)
       IN  /\ github_trending' = r.value
           /\ pc' = IF r.raised THEN "loader_raised" ELSE "get_ai_models"
    /\ UNCHANGED <<cache, producthunt, ai_models, ai_tools, ai_trends, ai_news,
                   consulted, parserVars, buildVars, all_dates, html>>

GetAIModels ==
    /\ pc = "get_ai_models"
    /\ LET r == get_ai_models(cache.openrouter_cache)
       IN  /\ ai_models' = r.value
           /\ pc' = IF r.raised THEN "loader_raised" ELSE "get_ai_tools"
    /\ UNCHANGED <<cache, producthunt, github_trending, ai_tools, ai_trends, ai_news,
                   consulted, parserVars, buildVars, all_dates, html>>

GetAITools ==
    /\ pc = "get_ai_tools"
    /\ ai_tools' = get_ai_tools
    /\ pc' = "get_ai_trends"
    /\ UNCHANGED <<cache, producthunt, github_trending, ai_models, ai_trends, ai_news,
                   consulted, parserVars, buildVars, all_dates, html>>

GetAITrends ==
    /\ pc = "get_ai_trends"
    /\ ai_trends' = get_ai_trends
    /\ pc' = "get_ai_news"
    /\ UNCHANGED <<cache, producthunt, github_trending, ai_models, ai_tools, ai_news,
                   consulted, parserVars, buildVars, all_dates, html>>

GetAINews ==
    /\ pc = "get_ai_news"
    /\ LET r == get_ai_news(cache.ai_news_cache)
       IN  /\ ai_news' = r.value
           /\ pc' = IF r.raised THEN "loader_raised" ELSE "parse"
    /\ UNCHANGED <<cache, producthunt, github_trending, ai_models, ai_tools, ai_trends,
                   consulted, parserVars, buildVars, all_dates, html>>

IsPrefix(s, t) == Len(s) <= Len(t) /\ SubSeq(t, 1, Len(s)) = s

\* the inputs explored: every text of at most MaxLen lines, and the scenario
CanRead(raw) == Len(lines) < MaxLen \/ IsPrefix(Append(lines, raw), SCENARIO)

\* one iteration of the loop of parse_markdown on a next line drawn from L
ParseLine(L) ==
    /\ pc = "parse"
    /\ \E raw \in L :
        /\ CanRead(raw)
        /\ LET st == HandleLine(ParserState(current_section, current_item, sections),
                                raw, Len(lines) + 1)
           IN  /\ lines' = Append(lines, raw)
               /\ current_section' = st.current_section
               /\ current_item' = st.current_item
               /\ sections' = st.sections
               /\ pc' = IF st.exc # "" THEN "raised" ELSE "parse"
    /\ UNCHANGED <<loaderVars, buildVars, all_dates, html>>

\* the input ends: the code after the loop, and the return
ParseEnd ==
    /\ pc = "parse"
    /\ sections' = FinishParse(ParserState(current_section, current_item, sections)).sections
    /\ pc' = "parsed"
    /\ UNCHANGED <<loaderVars, buildVars, lines, current_section, current_item,
                   all_dates, html>>

\* called on the Report as parsed, or in build on the Report with its date set
GenerateHtml ==
    /\ pc = IF build_date = None THEN "parsed" ELSE "dated"
    /\ html' = Some(generate_html(sections, all_dates, producthunt, github_trending,
                                  ai_models, ai_tools, ai_trends, ai_news))
    /\ pc' = "rendered"
    /\ UNCHANGED <<loaderVars, parserVars, buildVars, all_dates>>

Next ==
    \/ GetProductHunt
    \/ GetGithubTrending
    \/ GetAIModels
    \/ GetAITools
    \/ GetAITrends
    \/ GetAINews
    \/ ParseLine(LineSet)
    \/ ParseEnd
    \/ GenerateHtml

NextNav ==
    \/ GetProductHunt
    \/ GetGithubTrending
    \/ GetAIModels
    \/ GetAITools
    \/ GetAITrends
    \/ GetAINews
    \/ ParseLine(NavLineSet)
    \/ ParseEnd
    \/ GenerateHtml

NextAux ==
    \/ GetProductHunt
    \/ GetGithubTrending
    \/ GetAIModels
    \/ GetAITools
    \/ GetAITrends
    \/ GetAINews
    \/ ParseLine(AuxLineSet)
    \/ ParseEnd
    \/ GenerateHtml

NextSummary ==
    \/ GetProductHunt
    \/ GetGithubTrending
    \/ GetAIModels
    \/ GetAITools
    \/ GetAITrends
    \/ GetAINews
    \/ ParseLine(SummaryLineSet)
    \/ ParseEnd
    \/ GenerateHtml

NextBlank ==
    \/ GetProductHunt
    \/ GetGithubTrending
    \/ GetAIModels
    \/ GetAITools
    \/ GetAITrends
    \/ GetAINews
    \/ ParseLine(BlankLineSet)
    \/ ParseEnd
    \/ GenerateHtml

NextMeta ==
    \/ GetProductHunt
    \/ GetGithubTrending
    \/ GetAIModels
    \/ GetAITools
    \/ GetAITrends
    \/ GetAINews
    \/ ParseLine(MetaLineSet)
    \/ ParseEnd
    \/ GenerateHtml

Spec == Init /\ [][Next]_vars
SpecMeta == Init /\ [][NextMeta]_vars
SpecBlank == Init /\ [][NextBlank]_vars
SpecSummary == Init /\ [][NextSummary]_vars
SpecNav == InitNav /\ [][NextNav]_vars
SpecAux == InitAux /\ [][NextAux]_vars

-----------------------------------------------------------------------------
(* generate_html called with lists of its caller's choosing: empty, of one *)
(* element, as long as a cap, and longer than every cap.                   *)

Tools(k) == [i \in 1..k |-> [name |-> <<"tool", ToString(i)>>]]
Trends(k) == [i \in 1..k |-> [category |-> <<"trend", ToString(i)>>]]

CappedLens(cap) == {0, 1} \cup (cap..(cap + Over))
LONG == TOOLS_CAP + Over
UncappedLens == {0, 1, LONG}

CapsLineSet == {H_FIVE}

InitCaps ==
    /\ cache = DefaultCache
    /\ \E k \in UncappedLens : producthunt = Products(k)
    /\ \E k \in UncappedLens : github_trending = Repos(k)
    /\ \E k \in CappedLens(MODELS_CAP) : ai_models = Models(k)
    /\ \E k \in CappedLens(TOOLS_CAP) : ai_tools = Tools(k)
    /\ \E k \in UncappedLens : ai_trends = Trends(k)
    /\ \E k \in CappedLens(NEWS_CAP) : ai_news = NewsList(k)
    /\ lines = <<>>
    /\ current_section = "none"
    /\ current_item = None
    /\ sections = EmptySections
    /\ all_dates = <<Date(1), Date(2)>>
    /\ html = None
    /\ consulted = <<>>
    /\ md_files = {}
    /\ dist_dir = NoDir
    /\ todo = {}
    /\ build_date = None
    /\ pc = "parse"

NextCaps ==
    \/ ParseLine(CapsLineSet)
    \/ ParseEnd
    \/ GenerateHtml

SpecCaps == InitCaps /\ [][NextCaps]_vars

-----------------------------------------------------------------------------
(* build: the output directory is cleared, the dates are collected, the    *)
(* loaders run, every input file is parsed, dated, rendered and written,   *)
(* and the page of the latest date is copied to index.html.  The content   *)
(* of an input file is drawn line by line as parse_markdown reads it.      *)

HTML_SUFFIX == ".html"
INDEX_HTML == <<"index", HTML_SUFFIX>>
PageName(stem) == Append(stem, HTML_SUFFIX)

\* a page an earlier run left in the output directory
OLD_PAGE ==
    generate_html(EmptySections, <<>>, <<>>, <<>>, <<>>, <<>>, <<>>, <<>>)

\* the stems of the input files, and the states build may find dist in
STEMS == {Date(1), Date(2), Date(3)}
OldDirs ==
    {NoDir, EmptyDir,
     [exists |-> TRUE,
      files |-> [n \in {INDEX_HTML, PageName(DEC31), PageName(Date(1))} |-> OLD_PAGE]]}

\* the lines of the input files of a build
BuildLineSet == {TITLE_LINE, H_FIVE, OPENER_FOO}

InitBuild ==
    \E stems \in SUBSET STEMS, dir \in OldDirs :
        InitAll(DefaultCache, <<>>, stems, dir, "build")

\* if dist_dir.exists(): shutil.rmtree(dist_dir) without the rmtree
mkdir_only(dir) == [dir EXCEPT !.exists = TRUE]

\* if dist_dir.exists(): shutil.rmtree(dist_dir); dist_dir.mkdir(parents=True)
rmtree_mkdir(dir) == EmptyDir

\* sorted(output_dir.glob('*.md')), as the list of the stems
RECURSIVE sorted_glob(_)
sorted_glob(stems) ==
    IF stems = {} THEN <<>>
    ELSE LET first == CHOOSE d \in stems : \A e \in stems : e = d \/ StrLess(d, e)
         IN  <<first>> \o sorted_glob(stems \ {first})

\* data['date'] = date left out
keep_date(data, stem) == data

\* data['date'] = date
set_date(data, stem) == [data EXCEPT !.date = Some(stem)]

\* max(all_dates)
max(dates) ==
    CHOOSE d \in {dates[i] : i \in 1..Len(dates)} :
        \A i \in 1..Len(dates) : dates[i] = d \/ StrLess(dates[i], d)

\* output_file.write_text(html): the file is created or overwritten
write_text(dir, name, page) == [dir EXCEPT !.files = (name :> page) @@ dir.files]

CleanDist ==
    /\ pc = "build"
    /\ dist_dir' = rmtree_mkdir(dist_dir)
    /\ pc' = "glob"
    /\ UNCHANGED <<loaderVars, parserVars, all_dates, html, md_files, todo, build_date>>

GlobDates ==
    /\ pc = "glob"
    /\ all_dates' = sorted_glob(md_files)
    /\ pc' = "load"
    /\ UNCHANGED <<loaderVars, parserVars, buildVars, html>>

\* the six loader calls of build, in its order
LoadAuxiliary ==
    /\ pc = "load"
    /\ LET ph == get_producthunt_top30(cache.producthunt_cache, cache.feed)
           gh == get_github_trending(cache.github_trending_cache)
           models == get_ai_models(cache.openrouter_cache)
           news == get_ai_news(cache.ai_news_cache)
       IN  /\ producthunt' = ph.value
           /\ github_trending' = gh.value
           /\ ai_models' = models.value
           /\ ai_tools' = get_ai_tools
           /\ ai_trends' = get_ai_trends
           /\ ai_news' = news.value
           /\ pc' = IF ph.raised \/ gh.raised \/ models.raised \/ news.raised
                    THEN "loader_raised" ELSE "loop"
    /\ consulted' = top30_sources(cache.producthunt_cache, cache.feed)
    /\ UNCHANGED <<cache, parserVars, buildVars, all_dates, html>>

\* the page loop takes a file (glob yields them in no particular order) and
\* parse_markdown starts on its content
NextFile ==
    /\ pc = "loop"
    /\ \E stem \in todo :
        /\ build_date' = Some(stem)
        /\ todo' = todo \ {stem}
    /\ lines' = <<>>
    /\ current_section' = "none"
    /\ current_item' = None
    /\ sections' = EmptySections
    /\ pc' = "parse"
    /\ UNCHANGED <<loaderVars, all_dates, html, md_files, dist_dir>>

OverrideDate ==
    /\ pc = "parsed"
    /\ build_date # None
    /\ sections' = set_date(sections, build_date[1])
    /\ pc' = "dated"
    /\ UNCHANGED <<loaderVars, buildVars, lines, current_section, current_item,
                   all_dates, html>>

WritePage ==
    /\ pc = "rendered"
    /\ build_date # None
    /\ dist_dir' = write_text(dist_dir, PageName(build_date[1]), html[1])
    /\ pc' = "loop"
    /\ UNCHANGED <<loaderVars, parserVars, all_dates, html, md_files, todo, build_date>>

\* after the loop: shutil.copy of the latest page, which raises when that
\* page is not there
CopyIndex ==
    /\ pc = "loop"
    /\ todo = {}
    /\ IF all_dates = <<>>
       THEN /\ pc' = "built"
            /\ UNCHANGED dist_dir
       ELSE LET latest == PageName(max(all_dates))
            IN  IF latest \in DOMAIN dist_dir.files
                THEN /\ dist_dir' = write_text(dist_dir, INDEX_HTML, dist_dir.files[latest])
                     /\ pc' = "built"
                ELSE /\ pc' = "raised"
                     /\ UNCHANGED dist_dir
    /\ UNCHANGED <<loaderVars, parserVars, all_dates, html, md_files, todo, build_date>>

NextBuild ==
    \/ CleanDist
    \/ GlobDates
    \/ LoadAuxiliary
    \/ NextFile
    \/ ParseLine(BuildLineSet)
    \/ ParseEnd
    \/ OverrideDate
    \/ GenerateHtml
    \/ WritePage
    \/ CopyIndex

SpecBuild == InitBuild /\ [][NextBuild]_vars

-----------------------------------------------------------------------------
(* What the input says, read off the lines alone (not off the parser's     *)
(* locals): the section a line stands in, the openers, the continuation    *)
(* lines of an Article.                                                    *)

MaxOf(S) == CHOOSE x \in S : \A y \in S : x >= y

Line(k) == strip(lines[k])

IsHeader(line) == line \in {H_SUMMARY, H_FIVE, H_FOUR, H_WORTH}
IsTierHeader(line) == line \in {H_FIVE, H_FOUR, H_WORTH}
HeaderSection(line) ==
    CASE line = H_SUMMARY -> "summary"
      [] line = H_FIVE -> "five_star"
      [] line = H_FOUR -> "four_star"
      [] line = H_WORTH -> "worth_viewing"

\* the section named by the last header among the first k lines
SectionAfter(k) ==
    LET hs == {j \in 1..k : IsHeader(Line(j))}
    IN  IF hs = {} THEN "none" ELSE HeaderSection(Line(MaxOf(hs)))

\* line k starts an Article: a '**[' line under a rating-tier header
IsOpener(k) == SectionAfter(k - 1) \in Tiers /\ startswith(Line(k), OPENER_MARK)
Openers == {k \in 1..Len(lines) : IsOpener(k)}

\* line k is summary-continuation text
IsContinuation(k) ==
    /\ SectionAfter(k - 1) \in Tiers
    /\ Line(k) # <<>>
    /\ ~startswith(Line(k), TITLE_MARK)
    /\ ~IsHeader(Line(k))
    /\ ~startswith(Line(k), OPENER_MARK)
    /\ ~(startswith(Line(k), <<BACKTICK>>) /\ contains(Line(k), MIDDOT))
    /\ ~startswith(Line(k), HR_MARK)
    /\ ~startswith(Line(k), GENERATED_MARK)

\* the line at which the Article opened at line k is finalized: the next
\* rating-tier header or opener, or the end of the lines read
ItemEnd(k) ==
    LET ends == {j \in (k + 1)..Len(lines) : IsTierHeader(Line(j)) \/ IsOpener(j)}
    IN  IF ends = {} THEN Len(lines) + 1 ELSE MinOf(ends)

\* the elements of a set of line numbers, ascending
RECURSIVE Ascending(_)
Ascending(S) ==
    IF S = {} THEN <<>> ELSE <<MinOf(S)>> \o Ascending(S \ {MinOf(S)})

\* ' '.join of the lines numbered by ks
RECURSIVE JoinLines(_)
JoinLines(ks) ==
    IF ks = <<>> THEN <<>>
    ELSE IF Len(ks) = 1 THEN Line(ks[1])
    ELSE Line(ks[1]) \o <<" ">> \o JoinLines(Tail(ks))

ContinuationLines(k) ==
    Ascending({j \in (k + 1)..(ItemEnd(k) - 1) : IsContinuation(j)})

\* where the Article opened at line k stands in the returned lists
Places(k) ==
    {<<t, i>> \in Tiers \X (1..Len(lines)) :
        i <= Len(sections[t]) /\ sections[t][i].opener = k}

\* an Article as the source has it, without the opener index
Fields(a) == [title |-> a.title, url |-> a.url, summary |-> a.summary, meta |-> a.meta]
OpenersOf(as) == [i \in 1..Len(as) |-> as[i].opener]
Listed == {<<t, i>> \in Tiers \X (1..Len(lines)) : i <= Len(sections[t])}

\* the blocks of the page that carry name
BlocksOf(name) == {i \in 1..Len(html[1].body) : html[1].body[i].block = name}

-----------------------------------------------------------------------------
(* The claims *)

\* C1: when a rating-tier header is read while an Article is in progress, the
\* Article is appended to the list of the section active before the header,
\* to no other list and never to summary, and the accumulator is cleared.
C1_FlushIntoSectionLeft ==
    [][(/\ pc = "parse"
        /\ pc' = "parse"
        /\ Len(lines') = Len(lines) + 1
        /\ IsTierHeader(strip(lines'[Len(lines')]))
        /\ current_item # None)
       => /\ current_item' = None
          /\ sections'.summary = sections.summary
          /\ \A t \in Tiers :
                sections'[t] = IF t = current_section
                               THEN Append(sections[t], current_item[1])
                               ELSE sections[t]]_vars

\* C2: on the scenario (five-star header, opener Foo, meta, two text lines,
\* four-star header) five_star is exactly the one Article Foo and four_star
\* is empty.
FOO_ARTICLE ==
    [title |-> <<"Foo">>, url |-> <<"http://x">>,
     meta |-> <<"AI", " ", MIDDOT, " ", "5min">>,
     summary |-> <<"Great", " ", "read.", " ", "More", " ", "text.">>]
C2_Scenario ==
    (pc = "parsed" /\ lines = SCENARIO)
        => /\ Len(sections.five_star) = 1
           /\ Fields(sections.five_star[1]) = FOO_ARTICLE
           /\ sections.four_star = <<>>

\* C3: parse_markdown never raises, whatever the lines.
C3_NeverRaises == pc # "raised"

\* C4: when parse_markdown returns, every Article an opener started stands
\* exactly once in the three lists together.
C4_EveryArticleOnce ==
    pc = "parsed" => \A k \in Openers : Cardinality(Places(k)) = 1

\* C5: with the headers in canonical order, each returned list holds, in
\* input order, exactly the Articles opened under its header.
HeaderRank(line) ==
    CASE line = H_SUMMARY -> 1 [] line = H_FIVE -> 2
      [] line = H_FOUR -> 3 [] line = H_WORTH -> 4
CanonicalOrder ==
    \A i, j \in 1..Len(lines) :
        (i < j /\ IsHeader(Line(i)) /\ IsHeader(Line(j)))
            => HeaderRank(Line(i)) < HeaderRank(Line(j))
C5_ListsFollowHeaders ==
    (pc = "parsed" /\ CanonicalOrder)
        => \A t \in Tiers :
              OpenersOf(sections[t]) = Ascending({k \in Openers : SectionAfter(k) = t})

\* C6: the summary of every finalized Article is its continuation lines
\* joined with single spaces, no leading separator, and empty when it has none.
C6_SummaryJoined ==
    \A p \in Listed :
        sections[p[1]][p[2]].summary = JoinLines(ContinuationLines(sections[p[1]][p[2]].opener))
C6_Witness ==
    /\ pc = "parsed"
    /\ \E p \in Listed :
          /\ Len(ContinuationLines(sections[p[1]][p[2]].opener)) = 2
          /\ sections[p[1]][p[2]].summary = <<"Great", " ", "read.", " ", "More", " ", "text.">>

\* C7: an Article whose opener does not match the bold-link pattern has an
\* empty title and url, stands in the list of its tier when parse_markdown
\* returns, and the page shows per tier as many entries as the tier has
\* Articles with a title.
Titled(as) == SelectSeq(as, LAMBDA a : a.title # <<>>)
EntriesOf(name) ==
    IF BlocksOf(name) = {} THEN <<>>
    ELSE html[1].body[CHOOSE i \in BlocksOf(name) : TRUE].entries
C7_UntitledKeptNotShown ==
    pc = "rendered"
        => /\ \A k \in Openers :
                match_link(Line(k)) = None
                    => \E i \in 1..Len(sections[SectionAfter(k)]) :
                          LET a == sections[SectionAfter(k)][i]
                          IN  a.opener = k /\ a.title = <<>> /\ a.url = <<>>
           /\ \A t \in Tiers : Len(EntriesOf(t)) = Len(Titled(sections[t]))

\* C8: the page holds the block of a rating tier exactly when the tier has an
\* Article with a title; the block lists the titled Articles in list order;
\* the blocks stand in the order five-star, four-star, worth-viewing.
TierRank(t) ==
    CASE t = "five_star" -> 1 [] t = "four_star" -> 2 [] t = "worth_viewing" -> 3
C8_TierBlocks ==
    pc = "rendered"
        => LET body == html[1].body
           IN  /\ \A t \in Tiers :
                    LET shown == Titled(sections[t])
                    IN  /\ Cardinality(BlocksOf(t)) = IF shown = <<>> THEN 0 ELSE 1
                        /\ Len(EntriesOf(t)) = Len(shown)
                        /\ \A i \in 1..Len(shown) :
                              EntriesOf(t)[i] = Fields(shown[i])
               /\ \A i, j \in 1..Len(body) :
                    (i < j /\ body[i].block \in Tiers /\ body[j].block \in Tiers)
                        => TierRank(body[i].block) < TierRank(body[j].block)
C8_Witness ==
    /\ pc = "rendered"
    /\ \E t \in Tiers : BlocksOf(t) # {} /\ Len(EntriesOf(t)) >= 1
    /\ \E t \in Tiers : sections[t] # <<>> /\ BlocksOf(t) = {}

\* C9: the navigation has one link per element of all_dates, in descending
\* order of the dates whatever the order given, and a link is active exactly
\* when its date is the Report's date.
DateRank(d) == CHOOSE n \in 1..Len(DATE_LIST) : DATE_LIST[n] = d
Count(s, x) == Cardinality({i \in 1..Len(s) : s[i] = x})
NavTexts == [i \in 1..Len(html[1].date_nav) |-> html[1].date_nav[i].text]
NavActive == [i \in 1..Len(html[1].date_nav) |-> html[1].date_nav[i].active]
C9_DateNav ==
    pc = "rendered"
        => /\ Len(NavTexts) = Len(all_dates)
           /\ \A d \in DATES : Count(NavTexts, d) = Count(all_dates, d)
           /\ \A i, j \in 1..Len(NavTexts) :
                i < j => DateRank(NavTexts[i]) >= DateRank(NavTexts[j])
           /\ \A i \in 1..Len(NavTexts) :
                NavActive[i] <=> (sections.date # None /\ sections.date[1] = NavTexts[i])
           /\ (all_dates = <<Date(1), Date(3), Date(2)>> /\ sections.date = Some(Date(2)))
                => /\ NavTexts = <<Date(3), Date(2), Date(1)>>
                   /\ NavActive = <<FALSE, TRUE, FALSE>>
C9_Witness ==
    /\ pc = "rendered"
    /\ all_dates = <<Date(1), Date(3), Date(2)>>
    /\ sections.date = Some(Date(2))
    /\ NavTexts = <<Date(3), Date(2), Date(1)>>
    /\ NavActive = <<FALSE, TRUE, FALSE>>

\* C10 as stated: for each of the four cached sources, a missing or empty
\* cache file gives an empty list and no block on the page.
Unloadable(f) == ~f.exists \/ ~f.loads
NoList(f) == Unloadable(f) \/ f.json = <<>>
NoNews(f) ==
    \/ Unloadable(f)
    \/ ~f.json.is_dict
    \/ f.json.quantum = None
    \/ f.json.quantum = Some(<<>>)
NothingShown(list, name) == list = <<>> /\ BlocksOf(name) = {}
C10_EmptyCacheNoBlock ==
    pc = "rendered"
        => /\ NoList(cache.producthunt_cache) => NothingShown(producthunt, "producthunt")
           /\ NoList(cache.github_trending_cache)
                => NothingShown(github_trending, "github_trending")
           /\ NoList(cache.openrouter_cache) => NothingShown(ai_models, "ai_models")
           /\ NoNews(cache.ai_news_cache) => NothingShown(ai_news, "ai_news")

\* C10 amended: that holds for the repository and news lists; for the product
\* list it holds when the cache file is there, and when it is missing only
\* if the bridged feed delivers nothing; for the model list it holds when the
\* cache holds an empty list, while a missing or unreadable model cache gives
\* the eight built-in models and their block.  No block is an empty shell.
FeedDeliversNothing ==
    cache.feed.raises \/ cache.feed.status_code # 200 \/ cache.feed.items = <<>>
C10_EmptyCacheAmended ==
    pc = "rendered"
        => /\ NoList(cache.github_trending_cache)
                => NothingShown(github_trending, "github_trending")
           /\ NoNews(cache.ai_news_cache) => NothingShown(ai_news, "ai_news")
           /\ (/\ NoList(cache.producthunt_cache)
               /\ cache.producthunt_cache.exists \/ FeedDeliversNothing)
                => NothingShown(producthunt, "producthunt")
           /\ (~Unloadable(cache.openrouter_cache) /\ cache.openrouter_cache.json = <<>>)
                => NothingShown(ai_models, "ai_models")
           /\ Unloadable(cache.openrouter_cache)
                => /\ Len(ai_models) = 8
                   /\ Cardinality(BlocksOf("ai_models")) = 1
                   /\ Len(EntriesOf("ai_models")) = 8
           /\ \A i \in 1..Len(html[1].body) : html[1].body[i].entries # <<>>
C10_Witness ==
    /\ pc = "rendered"
    /\ ~cache.producthunt_cache.exists
    /\ cache.feed.raises
    /\ ~cache.github_trending_cache.exists
    /\ ~cache.openrouter_cache.exists
    /\ ~cache.ai_news_cache.exists
    /\ BlocksOf("producthunt") = {}
    /\ BlocksOf("github_trending") = {}
    /\ BlocksOf("ai_news") = {}
    /\ BlocksOf("ai_models") # {}

-----------------------------------------------------------------------------
(* The loaders' failures *)

\* the cache file is there and reading it raises
CacheReadFails(f) == f.exists /\ ~f.loads
NewsReadFails(f) == f.exists /\ (~f.loads \/ ~f.json.is_dict)
\* the bridged feed is called and the call raises
FeedCallFails == ~cache.producthunt_cache.exists /\ cache.feed.raises
\* all loaders have returned
Loaded == pc \in {"parse", "parsed", "rendered", "raised"}

\* C11 as stated: no loader lets an exception out to build, and every loader
\* whose cache read or network call fails returns an empty list, so that the
\* page is generated without that section.
C11_FailureGivesEmptyList ==
    /\ pc # "loader_raised"
    /\ Loaded
        => /\ (CacheReadFails(cache.producthunt_cache) \/ FeedCallFails)
                => producthunt = <<>>
           /\ CacheReadFails(cache.github_trending_cache) => github_trending = <<>>
           /\ CacheReadFails(cache.openrouter_cache) => ai_models = <<>>
           /\ NewsReadFails(cache.ai_news_cache) => ai_news = <<>>
    /\ pc = "rendered"
        => /\ (CacheReadFails(cache.producthunt_cache) \/ FeedCallFails)
                => BlocksOf("producthunt") = {}
           /\ CacheReadFails(cache.github_trending_cache)
                => BlocksOf("github_trending") = {}
           /\ CacheReadFails(cache.openrouter_cache) => BlocksOf("ai_models") = {}
           /\ NewsReadFails(cache.ai_news_cache) => BlocksOf("ai_news") = {}

\* C11 amended: no loader lets an exception out to build; the product,
\* repository and news loaders return an empty list when their cache read
\* or network call fails and the page has no block for them, while the model
\* loader whose cache read fails returns its eight built-in models, which
\* the page shows.
C11_FailureIsCaught ==
    /\ pc # "loader_raised"
    /\ Loaded
        => /\ (CacheReadFails(cache.producthunt_cache) \/ FeedCallFails)
                => producthunt = <<>>
           /\ CacheReadFails(cache.github_trending_cache) => github_trending = <<>>
           /\ CacheReadFails(cache.openrouter_cache)
                => /\ Len(ai_models) = 8
                   /\ \A i \in 1..8 : ai_models[i].rank = i
           /\ NewsReadFails(cache.ai_news_cache) => ai_news = <<>>
    /\ pc = "rendered"
        => /\ (CacheReadFails(cache.producthunt_cache) \/ FeedCallFails)
                => BlocksOf("producthunt") = {}
           /\ CacheReadFails(cache.github_trending_cache)
                => BlocksOf("github_trending") = {}
           /\ CacheReadFails(cache.openrouter_cache)
                => Len(EntriesOf("ai_models")) = 8
           /\ NewsReadFails(cache.ai_news_cache) => BlocksOf("ai_news") = {}
C11_Witness ==
    /\ pc = "rendered"
    /\ FeedCallFails
    /\ CacheReadFails(cache.github_trending_cache)
    /\ CacheReadFails(cache.openrouter_cache)
    /\ NewsReadFails(cache.ai_news_cache)
    /\ producthunt = <<>>
    /\ github_trending = <<>>
    /\ ai_news = <<>>
    /\ Len(ai_models) = 8

-----------------------------------------------------------------------------
(* The product loader's sources *)

SOURCE_ORDER == <<"cache", "feed", "mock">>
Tried(source) == \E i \in 1..Len(consulted) : consulted[i] = source
FeedAnswersNothing == cache.feed.raises \/ cache.feed.status_code # 200

\* C12 as stated: the product loader goes to the cache, the bridged feed and
\* the fixed empty result in that order and none twice, moves on whenever the
\* source at hand delivers no data (absent cache, failed cache read, non-200
\* answer, exception), and returns its empty list for want of data only
\* after the bridged feed has been tried.
C12_MovesOnUntilFeedTried ==
    Loaded
        => /\ consulted # <<>>
           /\ IsPrefix(consulted, SOURCE_ORDER)
           /\ Unloadable(cache.producthunt_cache) => Tried("feed")
           /\ (Tried("feed") /\ FeedAnswersNothing) => Tried("mock")
           /\ (Unloadable(cache.producthunt_cache) /\ producthunt = <<>>)
                => Tried("feed")

\* C12 amended: the order holds and no source is tried twice, but the loader
\* moves on from the cache only when the cache file is absent; a cache file
\* that is there and cannot be read ends the loader with an empty list and
\* the bridged feed untried.  From the feed it moves on to the fixed empty
\* result on an exception or a non-200 answer.  The list returned is that of
\* the last source tried.
C12_SourceOrder ==
    Loaded
        => /\ consulted # <<>>
           /\ IsPrefix(consulted, SOURCE_ORDER)
           /\ Tried("feed") <=> ~cache.producthunt_cache.exists
           /\ Tried("mock") <=> (Tried("feed") /\ FeedAnswersNothing)
           /\ CacheReadFails(cache.producthunt_cache)
                => (consulted = <<"cache">> /\ producthunt = <<>>)
           /\ (cache.producthunt_cache.exists /\ cache.producthunt_cache.loads)
                => producthunt = cache.producthunt_cache.json
           /\ (Tried("feed") /\ ~Tried("mock"))
                => /\ Len(producthunt) = Len(cache.feed.items)
                   /\ \A i \in 1..Len(producthunt) :
                        producthunt[i].url = cache.feed.items[i].link
           /\ Tried("mock") => producthunt = <<>>
C12_Witness ==
    /\ Loaded
    /\ ~cache.producthunt_cache.exists
    /\ ~cache.feed.raises
    /\ cache.feed.status_code = 500
    /\ consulted = SOURCE_ORDER
    /\ producthunt = <<>>

-----------------------------------------------------------------------------
(* The output directory of build *)

\* the input date that comes last in the calendar
LatestOf(stems) == CHOOSE d \in stems : \A e \in stems : DateRank(e) <= DateRank(d)
PagesOf(stems) == {PageName(d) : d \in stems}

\* C13: once build is through, the output directory holds one <date>.html
\* per input file, each the page of that date, plus index.html, which
\* equals the page of the latest date; with no input file it holds nothing.
\* From the clearing of the directory on, no page of an earlier run is in it.
C13_OutputDirectory ==
    /\ pc = "built"
        => /\ dist_dir.exists
           /\ DOMAIN dist_dir.files =
                PagesOf(md_files) \cup (IF md_files = {} THEN {} ELSE {INDEX_HTML})
           /\ \A d \in md_files : dist_dir.files[PageName(d)].title_date = d
           /\ md_files # {}
                => dist_dir.files[INDEX_HTML] = dist_dir.files[PageName(LatestOf(md_files))]
    /\ pc # "build"
        => /\ dist_dir.exists
           /\ \A n \in DOMAIN dist_dir.files :
                /\ dist_dir.files[n] # OLD_PAGE
                /\ n \in PagesOf(md_files \ todo) \cup {INDEX_HTML}
C13_Witness ==
    /\ pc = "built"
    /\ md_files = {Date(1), Date(3)}
    /\ DOMAIN dist_dir.files = {PageName(Date(1)), PageName(Date(3)), INDEX_HTML}
    /\ dist_dir.files[INDEX_HTML] = dist_dir.files[PageName(Date(3))]
    /\ dist_dir.files[INDEX_HTML] # dist_dir.files[PageName(Date(1))]

\* the links of a page that are marked active
ActiveLinks(page) == {i \in 1..Len(page.date_nav) : page.date_nav[i].active}

\* C19: in build the Report handed to generate_html carries the stem of its
\* input file as date, whatever the title line said, and every page written
\* has exactly one active navigation link, the one to itself.
C19_PageDatedByStem ==
    /\ (pc \in {"dated", "rendered"} /\ build_date # None)
        => sections.date = build_date
    /\ (pc = "rendered" /\ build_date # None)
        => html[1].title_date = build_date[1]
    /\ pc \notin {"build", "glob"}
        => \A d \in md_files :
            PageName(d) \in DOMAIN dist_dir.files
                => LET page == dist_dir.files[PageName(d)]
                   IN  /\ page.title_date = d
                       /\ Cardinality(ActiveLinks(page)) = 1
                       /\ \A i \in ActiveLinks(page) :
                            /\ page.date_nav[i].text = d
                            /\ page.date_nav[i].href = PageName(d)
\* the title line said 2024-01-02, the file is 2024-01-01.md
C19_Witness ==
    /\ pc = "loop"
    /\ md_files = {Date(1), Date(3)}
    /\ build_date = Some(Date(1))
    /\ lines = <<TITLE_LINE>>
    /\ sections.date = Some(Date(1))
    /\ PageName(Date(1)) \in DOMAIN dist_dir.files
    /\ Cardinality(ActiveLinks(dist_dir.files[PageName(Date(1))])) = 1

-----------------------------------------------------------------------------
(* The auxiliary blocks *)

\* the block of a list shows its first n elements, in order, and is there
\* exactly when the list is not empty
Shows(name, list, n) ==
    /\ Cardinality(BlocksOf(name)) = IF list = <<>> THEN 0 ELSE 1
    /\ Len(EntriesOf(name)) = n
    /\ \A i \in 1..n : EntriesOf(name)[i].item = list[i]
AtMost(list, cap) == IF Len(list) <= cap THEN Len(list) ELSE cap

\* C15: on the page, the model, tool and news blocks show the first
\* min(length, cap) elements of their lists with caps 8, 16 and 15, the
\* product, repository and trend blocks show every element, all in list
\* order, and a block is on the page if and only if its list is not empty.
C15_CapsAndBlocks ==
    pc = "rendered"
        => /\ Shows("ai_models", ai_models, AtMost(ai_models, MODELS_CAP))
           /\ Shows("ai_tools", ai_tools, AtMost(ai_tools, TOOLS_CAP))
           /\ Shows("ai_news", ai_news, AtMost(ai_news, NEWS_CAP))
           /\ Shows("producthunt", producthunt, Len(producthunt))
           /\ Shows("github_trending", github_trending, Len(github_trending))
           /\ Shows("ai_trends", ai_trends, Len(ai_trends))
           /\ \A i \in 1..Len(producthunt) : EntriesOf("producthunt")[i].rank = i
C15_Witness ==
    /\ pc = "rendered"
    /\ Len(ai_models) = MODELS_CAP + 1
    /\ Len(EntriesOf("ai_models")) = MODELS_CAP
    /\ Len(ai_tools) = TOOLS_CAP + 1
    /\ Len(EntriesOf("ai_tools")) = TOOLS_CAP
    /\ Len(ai_news) = NEWS_CAP + 1
    /\ Len(EntriesOf("ai_news")) = NEWS_CAP
    /\ Len(producthunt) > TOOLS_CAP
    /\ Len(EntriesOf("producthunt")) = Len(producthunt)
    /\ ai_trends = <<>>
    /\ BlocksOf("ai_trends") = {}

-----------------------------------------------------------------------------
(* The summary list *)

\* what a bullet line says, read off the line itself
SummaryItemOf(line) ==
    CASE line = BULLET_AI -> Some([topic |-> <<"AI">>, content |-> <<"news">>])
      [] line = BULLET_WEB
            -> Some([topic |-> <<"Web">>, content |-> <<"more", " ", "news">>])
      [] OTHER -> None

\* the matching bullet lines that stand under the summary header
SummaryBulletLines ==
    {k \in 1..Len(lines) :
        SectionAfter(k - 1) = "summary" /\ SummaryItemOf(Line(k)) # None}
ExpectedSummary ==
    LET ks == Ascending(SummaryBulletLines)
    IN  [i \in 1..Len(ks) |-> SummaryItemOf(Line(ks[i]))[1]]
TierLists == <<sections.five_star, sections.four_star, sections.worth_viewing>>

\* after every line read, the summary list holds the matching bullets read
\* under the summary header, in input order, and nothing else; the page has
\* one row per SummaryItem in that order and the placeholder exactly when
\* there is none
C16_SummaryList ==
    /\ sections.summary = ExpectedSummary
    /\ pc = "rendered"
        => /\ Len(html[1].summary.rows) = Len(sections.summary)
           /\ \A i \in 1..Len(sections.summary) :
                /\ html[1].summary.rows[i].topic = sections.summary[i].topic
                /\ html[1].summary.rows[i].content = sections.summary[i].content
           /\ html[1].summary.placeholder <=> (sections.summary = <<>>)

\* a line read while the summary section is active, a tier header apart,
\* leaves the tier lists as they are
C16_SummaryLineStep ==
    (/\ pc = "parse"
     /\ current_section = "summary"
     /\ Len(lines') = Len(lines) + 1
     /\ ~IsTierHeader(strip(lines'[Len(lines')])))
        => TierLists' = TierLists

\* C16: summary bullets become SummaryItems only under the summary header,
\* at once and in input order; bullet-shaped lines elsewhere never change the
\* summary list; lines of the summary section never change the tier lists;
\* the page shows one row per SummaryItem in order, and the placeholder
\* exactly when the list is empty.
C16_SummaryBullets == [](C16_SummaryList) /\ [][C16_SummaryLineStep]_vars
C16_Witness ==
    /\ pc = "rendered"
    /\ lines = <<BULLET_AI, H_SUMMARY, BULLET_WEB, BULLET_AI>>
    /\ Len(sections.summary) = 2
    /\ sections.summary[1].topic = <<"Web">>
    /\ sections.summary[2].topic = <<"AI">>
    /\ Len(html[1].summary.rows) = 2
    /\ ~html[1].summary.placeholder

-----------------------------------------------------------------------------
(* Blank lines *)

WhitespaceOnly(raw) == \A i \in 1..Len(raw) : raw[i] \in {" ", "\t"}
RECURSIVE WithoutBlanks(_)
WithoutBlanks(ls) ==
    IF ls = <<>> THEN <<>>
    ELSE IF WhitespaceOnly(Head(ls)) THEN WithoutBlanks(Tail(ls))
    ELSE <<Head(ls)>> \o WithoutBlanks(Tail(ls))

\* a Report without the line numbers the model keeps in its Articles
FieldsOfAll(as) == [i \in 1..Len(as) |-> Fields(as[i])]
ReportFields(r) ==
    [title |-> r.title, date |-> r.date, summary |-> r.summary,
     five_star |-> FieldsOfAll(r.five_star),
     four_star |-> FieldsOfAll(r.four_star),
     worth_viewing |-> FieldsOfAll(r.worth_viewing)]

\* the step that reads a whitespace-only line changes neither the active
\* section nor the accumulator nor any list, and raises nothing
C17_BlankLineStep ==
    (/\ pc = "parse"
     /\ Len(lines') = Len(lines) + 1
     /\ WhitespaceOnly(lines'[Len(lines')]))
        => /\ pc' = "parse"
           /\ current_section' = current_section
           /\ current_item' = current_item
           /\ sections' = sections

\* the Report returned is the Report of the input with its blank lines
\* taken out
C17_SameReportWithoutBlanks ==
    pc = "parsed"
        => LET bare == parse_markdown(WithoutBlanks(lines))
           IN  /\ bare.exc = ""
               /\ ReportFields(sections) = ReportFields(bare.sections)

\* C17: blank and whitespace-only lines are skipped without any change of
\* the active section, the accumulator or the lists, so the Report does not
\* depend on the blank lines of the input, and a blank line between an
\* opener and its continuation text does not end the Article.
C17_BlankLinesSkipped ==
    [][C17_BlankLineStep]_vars /\ [](C17_SameReportWithoutBlanks)
C17_Witness ==
    /\ pc = "parsed"
    /\ lines = <<H_FIVE, OPENER_FOO, SPACES, TEXT_GREAT>>
    /\ Len(sections.five_star) = 1
    /\ sections.five_star[1].title = <<"Foo">>
    /\ sections.five_star[1].summary = TEXT_GREAT

-----------------------------------------------------------------------------
(* Meta lines *)

\* what a meta line says between its backticks, read off the line itself
MetaTextOf(line) ==
    CASE line = META_LINE -> <<"AI", " ", MIDDOT, " ", "5min">>
      [] line = META_WEB -> <<"Web", " ", MIDDOT, " ", "3min">>
IsMetaLine(k) == SectionAfter(k - 1) \in Tiers /\ Line(k) \in {META_LINE, META_WEB}

\* the meta lines of the Article opened at line k, and the meta they leave
MetaLinesOf(k) == {j \in (k + 1)..(ItemEnd(k) - 1) : IsMetaLine(j)}
ExpectedMeta(k) ==
    IF MetaLinesOf(k) = {} THEN <<>> ELSE MetaTextOf(Line(MaxOf(MetaLinesOf(k))))

\* the meta of every Article, listed or in progress, is what its last meta
\* line says, and empty when it has none
C18_LastMeta ==
    /\ \A p \in Listed :
          sections[p[1]][p[2]].meta = ExpectedMeta(sections[p[1]][p[2]].opener)
    /\ (pc = "parse" /\ current_item # None)
        => current_item[1].meta = ExpectedMeta(current_item[1].opener)

\* the step that reads a meta line under a tier header with an Article in
\* progress sets that Article's meta and changes nothing else
C18_MetaLineStep ==
    (/\ pc = "parse"
     /\ current_section \in Tiers
     /\ current_item # None
     /\ Len(lines') = Len(lines) + 1
     /\ strip(lines'[Len(lines')]) \in {META_LINE, META_WEB})
        => /\ pc' = "parse"
           /\ current_section' = current_section
           /\ sections' = sections
           /\ current_item' # None
           /\ current_item'[1].meta = MetaTextOf(strip(lines'[Len(lines')]))
           /\ current_item'[1].title = current_item[1].title
           /\ current_item'[1].url = current_item[1].url
           /\ current_item'[1].summary = current_item[1].summary

\* C18: a meta line read under a tier header while an Article is in
\* progress sets only the meta of that Article, the last one winning, and
\* leaves title, url, summary and the lists alone; an Article without a
\* meta line has the empty meta.
C18_MetaOverwrites == [][C18_MetaLineStep]_vars /\ [](C18_LastMeta)
C18_Witness ==
    /\ pc = "parsed"
    /\ lines = <<H_FIVE, OPENER_FOO, META_LINE, META_WEB>>
    /\ Len(sections.five_star) = 1
    /\ sections.five_star[1].meta = <<"Web", " ", MIDDOT, " ", "3min">>
    /\ sections.five_star[1].title = <<"Foo">>

====
